---- MODULE Spec2Model ----
(***************************************************************************)
(* A model of the book-mechanics validator of kaichronicles                *)
(* (src/src/ts/views/loadGameView.ts, class BookValidator) and of its      *)
(* caller gameController.loadSection (src/unnamed/part_000).               *)
(*                                                                         *)
(* Representation.                                                         *)
(*  - A string the code builds by concatenation is the sequence of the     *)
(*    concatenated pieces: 'Section ' + id + ', rule ' + name + ': ' + msg *)
(*    is <<"Section ", id, ", rule ", name, ": ">> \o msg.                 *)
(*  - An XML element is [nodeName, attrs, children]; attrs is a function   *)
(*    whose domain is the set of the attributes the element carries, so    *)
(*    $rule.attr(p) is undefined exactly when p is not in DOMAIN attrs.    *)
(*  - The numeric attributes of a "case" rule hold the integer their text  *)
(*    denotes; a '|' separated list attribute holds the sequence of its    *)
(*    parts.                                                               *)
(*  - The state of one walk is w = [errors, thrown, xmllint]: the error    *)
(*    list, whether an exception is propagating, and how many times the    *)
(*    external schema validator has been called.                           *)
(***************************************************************************)
EXTENDS Integers, Sequences, FiniteSets, TLC

VARIABLES
    book,              \* the Book: section content, disciplines, section order
    mechanics,         \* the Mechanics: rule trees, object table, last section
    xsdText,           \* BookValidator.xsdText (static)
    xsdFetches,        \* HTTP requests for data/mechanics.xsd in flight
    errors,            \* this.errors
    currentSection,    \* this.currentSection (its sectionId)
    currentSectionId,  \* the local variable of validateBook's loop
    pc,                \* where the validator (or the rule under check) stands
    thrown,            \* the last call was left by an exception
    xmllintCalls,      \* calls of the external validateXML made by the last call
    validated,         \* section ids handed to validateSectionInternal by validateBook
    rule,              \* the rule element handed to a check (SpecRules)
    calls              \* the downloadBookAndGetValidator calls (SpecDownload),
                       \* the downloadXsd calls (SpecXsd)

vars == << book, mechanics, xsdText, xsdFetches, errors, currentSection,
           currentSectionId, pc, thrown, xmllintCalls, validated, rule, calls >>

(***************************************************************************)
(* Bounds of the model.                                                    *)
(***************************************************************************)
MaxCases == 3
MaxCalls == 2
MaxXsdFetches == 1
MaxXsdCalls == 4
MaxLoopSteps == 5

(***************************************************************************)
(* JavaScript values.                                                      *)
(***************************************************************************)
\* null / undefined where the code expects a string
Null == "null"

\* An object (a jQuery set, even an empty one, an array, a Book) is truthy.
ObjectTruthy(obj) == TRUE

Node(name, attrs, children) ==
    [nodeName |-> name, attrs |-> attrs, children |-> children]

\* $rule.attr(property) is a non-empty string
attrTruthy(r, property) ==
    property \in DOMAIN r.attrs /\ r.attrs[property] # ""

\* mechanicsEngine.getArrayProperty: the parts of a list attribute, [] if absent
getArrayProperty(r, property) ==
    IF property \in DOMAIN r.attrs THEN r.attrs[property] ELSE <<>>

\* Mechanics.getObject(objectId) found a definition
getObject(objectId) == objectId \in mechanics.objects

\* Book.getDisciplinesTable()[disciplineId] is defined
disciplineDefined(disciplineId) == disciplineId \in book.disciplines

\* Book.getSectionXml(sectionId): the matched section elements
getSectionXml(sectionId) ==
    IF sectionId \in book.sections THEN << sectionId >> ELSE <<>>

\* currentSection.$xmlSection.find('choice[idref=' + sectionId + ']')
findChoices(cs, sectionId) ==
    IF cs \in DOMAIN book.choices /\ sectionId \in book.choices[cs]
    THEN << sectionId >> ELSE <<>>

\* the number an index text denotes
parseIndex(txt) ==
    CASE txt = "0" -> 0
      [] txt = "1" -> 1
      [] txt = "2" -> 2

\* currentSection.$xmlSection.find('a[href=random]:eq(' + txtIndex + ')')
findRandomLink(cs, txtIndex) ==
    IF cs \in DOMAIN book.randomLinks /\ parseIndex(txtIndex) < book.randomLinks[cs]
    THEN << parseIndex(txtIndex) >> ELSE <<>>

(***************************************************************************)
(* Errors.                                                                 *)
(***************************************************************************)
NewWalk == [errors |-> <<>>, thrown |-> FALSE, xmllint |-> 0]

errorText(cs, r, errorMsg) ==
    << "Section ", cs, ", rule ", r.nodeName, ": " >> \o errorMsg

addError(w, cs, r, errorMsg) ==
    [w EXCEPT !.errors = Append(@, errorText(cs, r, errorMsg))]

\* addError for each message of msgs, in order
addErrors(w, cs, r, msgs) ==
    [w EXCEPT !.errors = @ \o [i \in 1..Len(msgs) |-> errorText(cs, r, msgs[i])]]

MsgOnlyOne == << "Must to have a \"objectId\" or \"class\" attribute, and only one" >>
MsgCount == << "Must to have a \"count\" attribute" >>
MsgNoLink == << "Link to random table not found" >>
MsgMissed == << "Missed numbers" >>
MsgOverlapped == << "Overlapped numbers" >>
MsgNeedsBounds == << "Needs \"value\" or \"from\" / \"to\" attributes" >>
MsgWrongRange == << "Wrong range" >>
MsgObjectNotFound(objectId) == << "Object id ", objectId, " not found" >>
MsgWrongDiscipline(id) == << "Wrong discipline id: ", id >>
MsgNoSection(id) == << "Section does not exists: ", id >>
MsgNoChoice(id) == << "No choice found on this section with destination to ", id >>
MsgWrongLanguage(language) == << "Wrong language: ", language >>
MsgNoXsd == << "The XSD for mechanics validation has not been downloaded" >>
MsgXmllint == << "mechanics.xml fails to validate" >>

(***************************************************************************)
(* Common attributes validation.                                           *)
(***************************************************************************)
getPropertyValueAsArray(r, property, allowMultiple) ==
    IF allowMultiple
    THEN getArrayProperty(r, property)
    ELSE IF attrTruthy(r, property) THEN << r.attrs[property] >> ELSE <<>>

\* [found |-> the returned boolean, w |-> the walk afterwards]
validateObjectIdsAttribute(w, cs, r, property, allowMultiple) ==
    LET objectIds == getPropertyValueAsArray(r, property, allowMultiple)
        missing == SelectSeq(objectIds, LAMBDA id : ~getObject(id))
    IN  IF Len(objectIds) = 0
        THEN [found |-> FALSE, w |-> w]
        ELSE [found |-> TRUE,
              w |-> addErrors(w, cs, r,
                      [i \in 1..Len(missing) |-> MsgObjectNotFound(missing[i])])]

validateNumericExpression(w, r, property) == w

validateBooleanExpression(w, r, property) == w

validateDisciplinesAttribute(w, cs, r, property, allowMultiple) ==
    LET disciplinesIds == getPropertyValueAsArray(r, property, allowMultiple)
        wrong == SelectSeq(disciplinesIds, LAMBDA id : ~disciplineDefined(id))
    IN  IF Len(disciplinesIds) = 0
        THEN w
        ELSE addErrors(w, cs, r, [i \in 1..Len(wrong) |-> MsgWrongDiscipline(wrong[i])])

validateSectionsAttribute(w, cs, r, property, allowMultiple) ==
    LET sectionIds == getPropertyValueAsArray(r, property, allowMultiple)
        wrong == SelectSeq(sectionIds, LAMBDA id : Len(getSectionXml(id)) = 0)
    IN  addErrors(w, cs, r, [i \in 1..Len(wrong) |-> MsgNoSection(wrong[i])])

validateSectionChoiceAttribute(w, cs, r, property) ==
    IF ~attrTruthy(r, property)
    THEN w
    ELSE IF Len(findChoices(cs, r.attrs[property])) = 0
         THEN addError(w, cs, r, MsgNoChoice(r.attrs[property]))
         ELSE w

(***************************************************************************)
(* Validate XML.                                                           *)
(***************************************************************************)
\* validateXML(module).trim() == mechanicsFileName + ' validates'
xmllintValidates == mechanics.xmlValidates

\* validateXml without the return after the error
validateXml_NoEarlyReturn(w) ==
    LET w1 == IF xsdText = Null THEN [w EXCEPT !.errors = Append(@, MsgNoXsd)] ELSE w
    IN  IF xmllintValidates /\ xsdText # Null
        THEN [w1 EXCEPT !.xmllint = @ + 1]
        ELSE [w1 EXCEPT !.xmllint = @ + 1, !.errors = Append(@, MsgXmllint)]

validateXml(w) ==
    IF xsdText = Null
    THEN [w EXCEPT !.errors = Append(@, MsgNoXsd)]
    ELSE IF xmllintValidates
         THEN [w EXCEPT !.xmllint = @ + 1]
         ELSE [w EXCEPT !.xmllint = @ + 1, !.errors = Append(@, MsgXmllint)]

(***************************************************************************)
(* Rules validation.                                                       *)
(***************************************************************************)
pick_NoCountCheck(w, cs, r) ==
    LET o == validateObjectIdsAttribute(w, cs, r, "objectId", FALSE)
        objectIdFound == o.found
        classFound == attrTruthy(r, "class")
        onlyOne == (objectIdFound /\ ~classFound) \/ (~objectIdFound /\ classFound)
    IN  IF ~onlyOne THEN addError(o.w, cs, r, MsgOnlyOne) ELSE o.w

pick(w, cs, r) ==
    LET o == validateObjectIdsAttribute(w, cs, r, "objectId", FALSE)
        objectIdFound == o.found
        classFound == attrTruthy(r, "class")
        onlyOne == (objectIdFound /\ ~classFound) \/ (~objectIdFound /\ classFound)
        w1 == IF ~onlyOne THEN addError(o.w, cs, r, MsgOnlyOne) ELSE o.w
        w2 == IF classFound /\ ~attrTruthy(r, "count")
              THEN addError(w1, cs, r, MsgCount) ELSE w1
    IN  validateNumericExpression(w2, r, "count")

\* randomMechanics.getCaseRuleBounds: <<from, to>>, or <<>> for null
getCaseRuleBounds(r) ==
    IF "value" \in DOMAIN r.attrs
    THEN << r.attrs["value"], r.attrs["value"] >>
    ELSE IF "from" \in DOMAIN r.attrs /\ "to" \in DOMAIN r.attrs
         THEN << r.attrs["from"], r.attrs["to"] >>
         ELSE <<>>

\* the loop over the bounds of one case: c = [coverage, overlapped, nCasesFound]
coverRange(c, bounds) ==
    IF bounds # <<>> /\ bounds[1] <= bounds[2]
    THEN [c EXCEPT !.overlapped = @ \/ (bounds[1]..bounds[2]) \cap c.coverage # {},
                   !.coverage = @ \cup (bounds[1]..bounds[2])]
    ELSE c

\* the loop over $rule.children()
RECURSIVE checkCoverage(_, _)
checkCoverage(c, children) ==
    IF children = <<>>
    THEN c
    ELSE LET child == Head(children)
             c1 == IF child.nodeName = "case"
                   THEN coverRange([c EXCEPT !.nCasesFound = @ + 1],
                                   getCaseRuleBounds(child))
                   ELSE c
         IN  checkCoverage(c1, Tail(children))

numberToTest(r) ==
    IF "zeroAsTen" \in DOMAIN r.attrs /\ r.attrs["zeroAsTen"] = "true"
    THEN << 1, 10 >> ELSE << 0, 9 >>

randomTableLink(w, cs, r) ==
    IF ~attrTruthy(r, "text-en")
    THEN LET txtIndex == IF attrTruthy(r, "index") THEN r.attrs["index"] ELSE "0"
             random == findRandomLink(cs, txtIndex)
         IN  IF ~ObjectTruthy(random) THEN addError(w, cs, r, MsgNoLink) ELSE w
    ELSE w

\* how many times the inner loop finds a number already covered
RECURSIVE countOverlaps(_, _)
countOverlaps(coverage, children) ==
    IF children = <<>>
    THEN 0
    ELSE LET child == Head(children)
             bounds == IF child.nodeName = "case" THEN getCaseRuleBounds(child) ELSE <<>>
             range == IF bounds # <<>> /\ bounds[1] <= bounds[2]
                      THEN bounds[1]..bounds[2] ELSE {}
         IN  Cardinality(range \cap coverage)
               + countOverlaps(coverage \cup range, Tail(children))

RECURSIVE addErrorTimes(_, _, _, _, _)
addErrorTimes(w, cs, r, errorMsg, n) ==
    IF n = 0 THEN w ELSE addErrorTimes(addError(w, cs, r, errorMsg), cs, r, errorMsg, n - 1)

\* the error added inside the loop, once per number found covered already
randomTable_OverlapPerNumber(w, cs, r) ==
    LET w0 == randomTableLink(w, cs, r)
        c == checkCoverage([coverage |-> {}, overlapped |-> FALSE, nCasesFound |-> 0],
                           r.children)
        range == numberToTest(r)
        missedNumbers == \E i \in range[1]..range[2] : i \notin c.coverage
        w1 == IF missedNumbers THEN addError(w0, cs, r, MsgMissed) ELSE w0
    IN  IF c.nCasesFound = 0
        THEN w0
        ELSE addErrorTimes(w1, cs, r, MsgOverlapped, countOverlaps({}, r.children))

\* the expected range taken as 0..9 whatever zeroAsTen says
randomTable_AlwaysZeroToNine(w, cs, r) ==
    LET w0 == randomTableLink(w, cs, r)
        c == checkCoverage([coverage |-> {}, overlapped |-> FALSE, nCasesFound |-> 0],
                           r.children)
        missedNumbers == \E i \in 0..9 : i \notin c.coverage
        w1 == IF missedNumbers THEN addError(w0, cs, r, MsgMissed) ELSE w0
    IN  IF c.nCasesFound = 0
        THEN w0
        ELSE IF c.overlapped THEN addError(w1, cs, r, MsgOverlapped) ELSE w1

randomTable(w, cs, r) ==
    LET w0 == randomTableLink(w, cs, r)
        c == checkCoverage([coverage |-> {}, overlapped |-> FALSE, nCasesFound |-> 0],
                           r.children)
        range == numberToTest(r)
        missedNumbers == \E i \in range[1]..range[2] : i \notin c.coverage
        w1 == IF missedNumbers THEN addError(w0, cs, r, MsgMissed) ELSE w0
    IN  IF c.nCasesFound = 0
        THEN w0
        ELSE IF c.overlapped THEN addError(w1, cs, r, MsgOverlapped) ELSE w1

case_NoRangeCheck(w, cs, r) ==
    LET bounds == getCaseRuleBounds(r)
    IN  IF bounds = <<>> THEN addError(w, cs, r, MsgNeedsBounds) ELSE w

case(w, cs, r) ==
    LET bounds == getCaseRuleBounds(r)
    IN  IF bounds = <<>>
        THEN addError(w, cs, r, MsgNeedsBounds)
        ELSE IF bounds[1] > bounds[2]
             THEN addError(w, cs, r, MsgWrongRange)
             ELSE w

test(w, cs, r) ==
    LET w1 == validateDisciplinesAttribute(w, cs, r, "hasDiscipline", TRUE)
        w2 == validateObjectIdsAttribute(w1, cs, r, "hasObject", TRUE).w
        w3 == validateBooleanExpression(w2, r, "expression")
        w4 == validateSectionsAttribute(w3, cs, r, "sectionVisited", TRUE)
        w5 == validateObjectIdsAttribute(w4, cs, r, "currentWeapon", FALSE).w
        w6 == IF attrTruthy(r, "bookLanguage")
                 /\ r.attrs["bookLanguage"] # "en" /\ r.attrs["bookLanguage"] # "es"
              THEN addError(w5, cs, r, MsgWrongLanguage(r.attrs["bookLanguage"]))
              ELSE w5
    IN  validateSectionChoiceAttribute(w6, cs, r, "isChoiceEnabled")

(***************************************************************************)
(* Rule dispatch: this[rule.nodeName].                                     *)
(***************************************************************************)
\* the data members of a BookValidator: objects, truthy and not callable
Fields == { "mechanics", "book", "errors", "currentSection" }

\* its function members (own and of the prototype)
Methods == { "validateBook", "validateSection", "validateSectionInternal",
             "validateChildrenRules", "validateRule", "addError",
             "getPropertyValueAsArray", "validateObjectIdsAttribute",
             "validateNumericExpression", "validateBooleanExpression",
             "validateDisciplinesAttribute", "validateSectionsAttribute",
             "validateSectionChoiceAttribute", "validateXml",
             "pick", "randomTable", "case", "test" }

\* this[rule.nodeName]( $(rule) ) for the function members the model's rule
\* names reach (the argument is ignored by validateXml and by the stubs)
callMember(w, cs, r) ==
    CASE r.nodeName = "pick" -> pick(w, cs, r)
      [] r.nodeName = "randomTable" -> randomTable(w, cs, r)
      [] r.nodeName = "case" -> case(w, cs, r)
      [] r.nodeName = "test" -> test(w, cs, r)
      [] r.nodeName = "validateXml" -> validateXml(w)
      [] r.nodeName = "validateNumericExpression" -> validateNumericExpression(w, r, r)
      [] r.nodeName = "validateBooleanExpression" -> validateBooleanExpression(w, r, r)

\* if( this[rule.nodeName] ) this[rule.nodeName]( $(rule) )
dispatch(w, cs, r) ==
    IF r.nodeName \in Fields
    THEN [w EXCEPT !.thrown = TRUE]      \* TypeError: this[...] is not a function
    ELSE IF r.nodeName \in Methods
         THEN callMember(w, cs, r)
         ELSE w

\* validateChildrenRules: the loop over $parent.children(), with the body of
\* validateRule (the dispatch, then the children of the rule) in place; an
\* exception ends the walk
RECURSIVE validateChildrenRules(_, _, _)
validateChildrenRules(w, cs, children) ==
    IF children = <<>> \/ w.thrown
    THEN w
    ELSE LET r == Head(children)
             w1 == dispatch(w, cs, r)
             w2 == IF w1.thrown THEN w1 ELSE validateChildrenRules(w1, cs, r.children)
         IN  validateChildrenRules(w2, cs, Tail(children))

validateRule(w, cs, r) == validateChildrenRules(w, cs, << r >>)

(***************************************************************************)
(* The book and the mechanics the model runs on.                           *)
(***************************************************************************)
\* Book.INITIAL_SECTION
INITIAL_SECTION == "tssf"

\* the sections of the book, in document order
SectionOrder == << "tssf", "sect1", "sect2" >>

SectionIds == { SectionOrder[i] : i \in 1..Len(SectionOrder) }

ObjectIds == { "sword", "axe" }

Opt(n, V) == { <<>> } \cup { n :> v : v \in V }

SeqsUpTo(S, n) == UNION { [1..k -> S] : k \in 0..n }

TheBook(links) ==
    [ sections |-> SectionIds,
      disciplines |-> { "camouflage" },
      choices |-> [s \in SectionIds |-> { "sect2" }],
      randomLinks |-> [s \in SectionIds |-> links] ]

NoRules == [s \in SectionIds |-> <<>>]

TheMechanics(sections, objects, last, valid) ==
    [ sections |-> sections, objects |-> objects,
      lastSectionId |-> last, xmlValidates |-> valid ]

(***************************************************************************)
(* SpecRules: one rule element handed to its check.                        *)
(***************************************************************************)
PickRules ==
    { Node("pick", a @@ b @@ c, <<>>) :
        a \in Opt("objectId", { "", "sword", "axe" }),
        b \in Opt("class", { "", "weapon" }),
        c \in Opt("count", { "", "2" }) }

CaseAttrs ==
    { a @@ b : a \in Opt("from", { 0, 1, 5 }), b \in Opt("to", { 4, 10 }) }
      \cup { "value" :> 0 }

CaseRules == { Node("case", a, <<>>) : a \in CaseAttrs }

ChildRules == CaseRules \cup { Node("pick", <<>>, <<>>) }

\* every attribute of the link check, at most one child
RandomTableLinkRules ==
    { Node("randomTable", a @@ b @@ c, ch) :
        a \in Opt("text-en", { "Pick a number" }),
        b \in Opt("index", { "1" }),
        c \in Opt("zeroAsTen", { "true" }),
        ch \in SeqsUpTo(ChildRules, 1) }

\* every list of at most maxCases children
RandomTableCoverageRules(maxCases) ==
    { Node("randomTable", a @@ c, ch) :
        a \in Opt("text-en", { "Pick a number" }),
        c \in Opt("zeroAsTen", { "true", "false" }),
        ch \in SeqsUpTo(ChildRules, maxCases) }

TestRules ==
    { Node("test", a @@ b @@ c @@ d @@ e @@ f, <<>>) :
        a \in Opt("hasDiscipline", { << "camouflage" >>, << "camouflage", "bogus" >> }),
        b \in Opt("hasObject", { << "sword", "axe" >> }),
        c \in Opt("sectionVisited", { << "sect1" >>, << "sect999" >> }),
        d \in Opt("currentWeapon", { "axe" }),
        e \in Opt("bookLanguage", { "en", "fr" }),
        f \in Opt("isChoiceEnabled", { "sect2", "sect9" }) }

InitRules ==
    /\ \/ /\ rule \in PickRules
          /\ \E objects \in SUBSET ObjectIds :
                mechanics = TheMechanics(NoRules, objects, "sect2", TRUE)
          /\ book = TheBook(1)
       \/ /\ rule \in CaseRules \cup TestRules \cup RandomTableCoverageRules(MaxCases)
          /\ mechanics = TheMechanics(NoRules, { "sword" }, "sect2", TRUE)
          /\ book = TheBook(1)
       \/ /\ rule \in RandomTableLinkRules
          /\ mechanics = TheMechanics(NoRules, { "sword" }, "sect2", TRUE)
          /\ \E links \in 0..2 : book = TheBook(links)
    /\ currentSection = "sect1"
    /\ errors = <<>>
    /\ pc = "rule"
    /\ thrown = FALSE
    /\ xmllintCalls = 0
    /\ xsdText = Null
    /\ xsdFetches = 0
    /\ currentSectionId = Null
    /\ validated = <<>>
    /\ calls = <<>>

\* this[rule.nodeName]( $(rule) ) on a validator whose error list is empty
CheckRule ==
    /\ pc = "rule"
    /\ LET w == dispatch(NewWalk, currentSection, rule)
       IN  /\ errors' = w.errors
           /\ thrown' = w.thrown
           /\ xmllintCalls' = w.xmllint
    /\ pc' = "checked"
    /\ UNCHANGED << book, mechanics, xsdText, xsdFetches, currentSection,
                    currentSectionId, validated, rule, calls >>

NextRules == CheckRule

SpecRules == InitRules /\ [][NextRules]_vars

(***************************************************************************)
(* The validator: validateBook, validateSection, loadSection, downloadXsd. *)
(***************************************************************************)
\* Mechanics.getSection(sectionId): the section's element, <<>> for null
getSection(sectionId) ==
    IF sectionId \in DOMAIN mechanics.sections THEN mechanics.sections[sectionId] ELSE <<>>

\* Mechanics.getLastSectionId()
getLastSectionId == mechanics.lastSectionId

\* Section.getNextSectionId(): the id of the section that follows, or null
getNextSectionId(sectionId) ==
    IF \E i \in 1..(Len(SectionOrder) - 1) : SectionOrder[i] = sectionId
    THEN SectionOrder[(CHOOSE i \in 1..(Len(SectionOrder) - 1) : SectionOrder[i] = sectionId) + 1]
    ELSE Null

\* Section.exists()
sectionExists(sectionId) == sectionId \in book.sections

\* the walk of one section's rules; this.currentSection is sectionId meanwhile
validateSectionInternal(w, sectionId) ==
    LET sectionMechanics == getSection(sectionId)
    IN  IF sectionMechanics = <<>>
        THEN w
        ELSE validateChildrenRules(w, sectionId, sectionMechanics[1].children)

\* validateSection without this.errors = []
validateSection_NoReset(w, sectionId) == validateSectionInternal(w, sectionId)

validateSection(w, sectionId) ==
    validateSectionInternal([w EXCEPT !.errors = <<>>], sectionId)

\* validateBook up to its loop: this.errors = []; this.validateXml()
validateBookStart(w) == validateXml([w EXCEPT !.errors = <<>>])

\* one turn of validateBook's loop: this.validateSectionInternal(currentSectionId)
validateBookTurn(w, sectionId) == validateSectionInternal(w, sectionId)

\* the validator's fields as a walk that starts now
ThisWalk == [errors |-> errors, thrown |-> FALSE, xmllint |-> 0]

Running == pc = "validateBook"

\* the rules a section element of the model may hold
PickBad == Node("pick", <<>>, <<>>)

CaseBad == Node("case", ("from" :> 5) @@ ("to" :> 4), <<>>)

RuleNames == { "pick", "randomTable", "case", "test", "combat", "errors", "validateXml" }

attrsOf(name) ==
    CASE name = "case" -> ("from" :> 5) @@ ("to" :> 4)
      [] name = "test" -> ("bookLanguage" :> "fr")
      [] name = "randomTable" -> ("text-en" :> "Pick a number")
      [] OTHER -> <<>>

\* a pick rule alone, or a rule of each name with a pick rule as its child
TopRules ==
    { PickBad } \cup { Node(name, attrsOf(name), << PickBad >>) : name \in RuleNames }

SectionMechanics ==
    { <<>> } \cup { << Node("section", <<>>, << t >>) >> : t \in TopRules }

LastSectionIds == SectionIds \cup { "sect350" }

Init ==
    /\ book = TheBook(1)
    /\ \E first \in SectionMechanics, second \in SectionMechanics,
          last \in LastSectionIds, valid \in BOOLEAN :
          mechanics = TheMechanics(
              ("tssf" :> first) @@ ("sect1" :> second)
                  @@ ("sect2" :> << Node("section", <<>>, << CaseBad, PickBad >>) >>),
              { "sword" }, last, valid)
    /\ xsdText = Null
    /\ xsdFetches = 0
    /\ errors = <<>>
    /\ currentSection = Null
    /\ currentSectionId = Null
    /\ pc = "idle"
    /\ thrown = FALSE
    /\ xmllintCalls = 0
    /\ validated = <<>>
    /\ rule = <<>>
    /\ calls = <<>>

\* validateBook is called: the error list is reset, the XML validated, the
\* loop entered
ValidateBook ==
    /\ ~Running
    /\ LET w == validateBookStart(ThisWalk)
       IN  /\ errors' = w.errors
           /\ xmllintCalls' = w.xmllint
    /\ thrown' = FALSE
    /\ currentSectionId' = INITIAL_SECTION
    /\ validated' = <<>>
    /\ pc' = "validateBook"
    /\ UNCHANGED << book, mechanics, xsdText, xsdFetches, currentSection, rule, calls >>

\* one turn of the loop: the section is validated and the loop moves to the
\* next section id; an exception leaves validateBook
ValidateBookStep ==
    /\ Running
    /\ currentSectionId # getLastSectionId
    /\ Len(validated) < MaxLoopSteps
    /\ LET w == validateBookTurn([errors |-> errors, thrown |-> FALSE,
                                  xmllint |-> xmllintCalls], currentSectionId)
       IN  /\ errors' = w.errors
           /\ xmllintCalls' = w.xmllint
           /\ thrown' = w.thrown
           /\ pc' = IF w.thrown THEN "validateBookDone" ELSE pc
           /\ currentSectionId' =
                IF w.thrown THEN currentSectionId ELSE getNextSectionId(currentSectionId)
    /\ currentSection' = currentSectionId
    /\ validated' = Append(validated, currentSectionId)
    /\ UNCHANGED << book, mechanics, xsdText, xsdFetches, rule, calls >>

\* the loop ends: currentSectionId is the last section id
ValidateBookReturn ==
    /\ Running
    /\ currentSectionId = getLastSectionId
    /\ pc' = "validateBookDone"
    /\ UNCHANGED << book, mechanics, xsdText, xsdFetches, errors, currentSection,
                    currentSectionId, thrown, xmllintCalls, validated, rule, calls >>

ValidateSection(sectionId) ==
    /\ ~Running
    /\ LET w == validateSection(ThisWalk, sectionId)
       IN  /\ errors' = w.errors
           /\ xmllintCalls' = w.xmllint
           /\ thrown' = w.thrown
    /\ currentSection' = sectionId
    /\ pc' = "validateSectionDone"
    /\ UNCHANGED << book, mechanics, xsdText, xsdFetches, currentSectionId,
                    validated, rule, calls >>

\* gameController.loadSection in debug mode: a new validator validates the
\* section; nothing of the validator happens otherwise
LoadSection(sectionId, debug) ==
    /\ ~Running
    /\ IF sectionExists(sectionId) /\ debug
       THEN LET w == validateSection(NewWalk, sectionId)
            IN  /\ errors' = w.errors
                /\ xmllintCalls' = w.xmllint
                /\ thrown' = w.thrown
                /\ currentSection' = sectionId
                /\ pc' = "validateSectionDone"
       ELSE UNCHANGED << errors, xmllintCalls, thrown, currentSection, pc >>
    /\ UNCHANGED << book, mechanics, xsdText, xsdFetches, currentSectionId,
                    validated, rule, calls >>

\* the text the schema request answers with
XsdText == "<xs:schema>"

\* downloadXsd: nothing to do when the text is there, a request otherwise
DownloadXsd ==
    /\ ~Running
    /\ IF xsdText # Null
       THEN UNCHANGED xsdFetches
       ELSE /\ xsdFetches < MaxXsdFetches
            /\ xsdFetches' = xsdFetches + 1
    /\ UNCHANGED << book, mechanics, xsdText, errors, currentSection, currentSectionId,
                    pc, thrown, xmllintCalls, validated, rule, calls >>

\* a request succeeds: the done callback stores the text
DownloadXsdDone ==
    /\ ~Running
    /\ xsdFetches > 0
    /\ xsdText' = XsdText
    /\ xsdFetches' = xsdFetches - 1
    /\ UNCHANGED << book, mechanics, errors, currentSection, currentSectionId,
                    pc, thrown, xmllintCalls, validated, rule, calls >>

\* a request fails: no callback of downloadXsd runs
DownloadXsdFail ==
    /\ ~Running
    /\ xsdFetches > 0
    /\ xsdFetches' = xsdFetches - 1
    /\ UNCHANGED << book, mechanics, xsdText, errors, currentSection, currentSectionId,
                    pc, thrown, xmllintCalls, validated, rule, calls >>

Next ==
    \/ ValidateBook
    \/ ValidateBookStep
    \/ ValidateBookReturn
    \/ \E sectionId \in SectionIds : ValidateSection(sectionId)
    \/ \E sectionId \in SectionIds \cup { "sect999" }, debug \in BOOLEAN :
          LoadSection(sectionId, debug)
    \/ DownloadXsd
    \/ DownloadXsdDone
    \/ DownloadXsdFail

Spec == Init /\ [][Next]_vars

(***************************************************************************)
(* SpecDownload: downloadBookAndGetValidator and its three downloads.      *)
(***************************************************************************)
\* promises[1] = book.downloadBookXml(), promises[2] = mechanics.downloadXml(),
\* promises[3] = mechanics.downloadObjectsXml()
Downloads == 1..3

BookNumbers == { 1, 2 }

Languages == { "en" }

MsgDownload == << "Error downloading book files" >>

\* new BookValidator(mechanics, book)
NewBookValidator(bookNumber, language) == << "BookValidator", bookNumber, language >>

\* $.when.apply($, promises): rejected with the first rejection, resolved
\* once every promise has resolved, settled once
whenState(state, promises) ==
    IF state # "pending"
    THEN state
    ELSE IF \E i \in Downloads : promises[i] = "rejected"
         THEN "rejected"
         ELSE IF \A i \in Downloads : promises[i] = "resolved"
              THEN "resolved"
              ELSE "pending"

\* dfd.resolve(value) / dfd.reject(value): a settled Deferred stays as it is
settle(dfd, state, value) ==
    IF dfd.state = "pending" THEN [state |-> state, value |-> value] ELSE dfd

\* the callback registered with always() instead of done(): the validator is
\* built and handed over however $.when settles
afterDownload_AlwaysResolves(c, i, outcome) ==
    LET promises == [c.promises EXCEPT ![i] = outcome]
        master == whenState(c.when, promises)
        c1 == [c EXCEPT !.promises = promises, !.when = master]
    IN  IF c.when = "pending" /\ master # "pending"
        THEN [c1 EXCEPT !.validators = @ + 1,
                        !.doneRuns = @ + 1,
                        !.dfd = settle(@, "resolved",
                                       NewBookValidator(c.bookNumber, c.language))]
        ELSE c1

\* a download of call c settles as outcome: $.when follows, and its done or
\* fail callback runs when it settles
afterDownload(c, i, outcome) ==
    LET promises == [c.promises EXCEPT ![i] = outcome]
        master == whenState(c.when, promises)
        c1 == [c EXCEPT !.promises = promises, !.when = master]
    IN  IF c.when = "pending" /\ master = "resolved"
        THEN [c1 EXCEPT !.validators = @ + 1,
                        !.doneRuns = @ + 1,
                        !.dfd = settle(@, "resolved",
                                       NewBookValidator(c.bookNumber, c.language))]
        ELSE IF c.when = "pending" /\ master = "rejected"
             THEN [c1 EXCEPT !.failRuns = @ + 1,
                             !.dfd = settle(@, "rejected", MsgDownload)]
             ELSE c1

InitDownload ==
    /\ calls = <<>>
    /\ book = TheBook(1)
    /\ mechanics = TheMechanics(NoRules, { "sword" }, "sect2", TRUE)
    /\ xsdText = Null
    /\ xsdFetches = 0
    /\ errors = <<>>
    /\ currentSection = Null
    /\ currentSectionId = Null
    /\ pc = "idle"
    /\ thrown = FALSE
    /\ xmllintCalls = 0
    /\ validated = <<>>
    /\ rule = <<>>

DownloadBookAndGetValidator(bookNumber, language) ==
    /\ Len(calls) < MaxCalls
    /\ calls' = Append(calls,
         [ bookNumber |-> bookNumber, language |-> language,
           promises |-> [i \in Downloads |-> "pending"],
           when |-> "pending",
           dfd |-> [state |-> "pending", value |-> <<>>],
           validators |-> 0, doneRuns |-> 0, failRuns |-> 0 ])
    /\ UNCHANGED << book, mechanics, xsdText, xsdFetches, errors, currentSection,
                    currentSectionId, pc, thrown, xmllintCalls, validated, rule >>

DownloadResolves(c, i) ==
    /\ c \in DOMAIN calls
    /\ calls[c].promises[i] = "pending"
    /\ calls' = [calls EXCEPT ![c] = afterDownload(@, i, "resolved")]
    /\ UNCHANGED << book, mechanics, xsdText, xsdFetches, errors, currentSection,
                    currentSectionId, pc, thrown, xmllintCalls, validated, rule >>

DownloadRejects(c, i) ==
    /\ c \in DOMAIN calls
    /\ calls[c].promises[i] = "pending"
    /\ calls' = [calls EXCEPT ![c] = afterDownload(@, i, "rejected")]
    /\ UNCHANGED << book, mechanics, xsdText, xsdFetches, errors, currentSection,
                    currentSectionId, pc, thrown, xmllintCalls, validated, rule >>

NextDownload ==
    \/ \E bookNumber \in BookNumbers, language \in Languages :
          DownloadBookAndGetValidator(bookNumber, language)
    \/ \E c \in 1..MaxCalls, i \in Downloads : DownloadResolves(c, i)
    \/ \E c \in 1..MaxCalls, i \in Downloads : DownloadRejects(c, i)

SpecDownload == InitDownload /\ [][NextDownload]_vars

(***************************************************************************)
(* downloadXsd and the static schema text (SpecXsd): every call with the   *)
(* promise it returned, every request with its completion.                 *)
(***************************************************************************)

\* the texts a request for data/mechanics.xsd may answer with
XsdResponses == { XsdText, "<xs:schema v2>", "" }

\* if( BookValidator.xsdText ): undefined and the empty string are falsy
xsdTruthy(text) == text # Null /\ text # ""

\* downloadXsd(): the promise it returns and whether it sent a request
downloadXsd(text) ==
    IF xsdTruthy(text)
    THEN [ fetched |-> FALSE, promise |-> "resolved" ]
    ELSE [ fetched |-> TRUE, promise |-> "pending" ]

\* the done callback of a request
xsdDone(xmlText) == xmlText

\* requests sent by the calls so far
XsdRequests(cs) == { c \in DOMAIN cs : cs[c].fetched }

InitXsd ==
    /\ calls = <<>>
    /\ book = TheBook(1)
    /\ mechanics = TheMechanics(NoRules, { "sword" }, "sect2", TRUE)
    /\ xsdText = Null
    /\ xsdFetches = 0
    /\ errors = <<>>
    /\ currentSection = Null
    /\ currentSectionId = Null
    /\ pc = "idle"
    /\ thrown = FALSE
    /\ xmllintCalls = 0
    /\ validated = <<>>
    /\ rule = <<>>

DownloadXsdCall ==
    /\ Len(calls) < MaxXsdCalls
    /\ calls' = Append(calls, downloadXsd(xsdText))
    /\ xsdFetches' = IF downloadXsd(xsdText).fetched THEN xsdFetches + 1 ELSE xsdFetches
    /\ UNCHANGED << book, mechanics, xsdText, errors, currentSection,
                    currentSectionId, pc, thrown, xmllintCalls, validated, rule >>

\* the request of call c answers with xmlText: done runs, the promise resolves
XsdRequestDone(c, xmlText) ==
    /\ c \in DOMAIN calls
    /\ calls[c].fetched
    /\ calls[c].promise = "pending"
    /\ xsdText' = xsdDone(xmlText)
    /\ calls' = [calls EXCEPT ![c].promise = "resolved"]
    /\ xsdFetches' = xsdFetches - 1
    /\ UNCHANGED << book, mechanics, errors, currentSection, currentSectionId,
                    pc, thrown, xmllintCalls, validated, rule >>

\* the request of call c fails: done does not run, the promise rejects
XsdRequestFail(c) ==
    /\ c \in DOMAIN calls
    /\ calls[c].fetched
    /\ calls[c].promise = "pending"
    /\ calls' = [calls EXCEPT ![c].promise = "rejected"]
    /\ xsdFetches' = xsdFetches - 1
    /\ UNCHANGED << book, mechanics, xsdText, errors, currentSection,
                    currentSectionId, pc, thrown, xmllintCalls, validated, rule >>

NextXsd ==
    \/ DownloadXsdCall
    \/ \E c \in 1..MaxXsdCalls, xmlText \in XsdResponses : XsdRequestDone(c, xmlText)
    \/ \E c \in 1..MaxXsdCalls : XsdRequestFail(c)

SpecXsd == InitXsd /\ [][NextXsd]_vars

(***************************************************************************)
(* Claims about the checks (SpecRules).                                    *)
(***************************************************************************)
\* how many entries of the error list are the rule's error errorMsg
Count(errorMsg) ==
    Cardinality({ i \in 1..Len(errors) :
                    errors[i] = errorText(currentSection, rule, errorMsg) })

Checked(name) == pc = "checked" /\ rule.nodeName = name

\* an attribute is set: present with a non-empty value
IsSet(property) == property \in DOMAIN rule.attrs /\ rule.attrs[property] # ""

PickWellFormed ==
    /\ IsSet("objectId") # IsSet("class")
    /\ IsSet("class") => IsSet("count")

\* C1 as stated: the pick check appends no error if and only if exactly one
\* of objectId and class is set and, when class is set, count is set too.
C1_AsStated == Checked("pick") => (errors = <<>> <=> PickWellFormed)

\* C1 amended: ... and, when objectId is set, it names an object of the
\* mechanics' object table.
C1_PickNoErrorIff ==
    Checked("pick") =>
        (errors = <<>> <=>
            /\ PickWellFormed
            /\ IsSet("objectId") => rule.attrs["objectId"] \in mechanics.objects)

C1_Witness ==
    /\ Checked("pick")
    /\ PickWellFormed
    /\ IsSet("objectId") /\ rule.attrs["objectId"] \notin mechanics.objects
    /\ errors = << errorText(currentSection, rule, MsgObjectNotFound(rule.attrs["objectId"])) >>

\* the immediate "case" children, by position
CaseChildren == { i \in 1..Len(rule.children) : rule.children[i].nodeName = "case" }

HasBounds(i) == getCaseRuleBounds(rule.children[i]) # <<>>

ValidBounds(i) ==
    /\ HasBounds(i)
    /\ getCaseRuleBounds(rule.children[i])[1] <= getCaseRuleBounds(rule.children[i])[2]

\* the integers of a case child's range, none if its bounds are not valid
RangeOf(i) ==
    IF ValidBounds(i)
    THEN getCaseRuleBounds(rule.children[i])[1]..getCaseRuleBounds(rule.children[i])[2]
    ELSE {}

SomeOverlap ==
    \E i \in CaseChildren : \E j \in CaseChildren : i # j /\ RangeOf(i) \cap RangeOf(j) # {}

\* C2: when every case child of a randomTable has valid bounds, 'Overlapped
\* numbers' is appended once if two distinct case children intersect, however
\* many pairs or integers overlap, and not at all if none do.
C2_OverlappedOnce ==
    (Checked("randomTable") /\ \A i \in CaseChildren : ValidBounds(i)) =>
        Count(MsgOverlapped) = IF SomeOverlap THEN 1 ELSE 0

\* three case children, every pair of which shares several integers
C2_Witness ==
    /\ Checked("randomTable")
    /\ Cardinality(CaseChildren) = 3
    /\ \A i \in CaseChildren : ValidBounds(i)
    /\ \A i \in CaseChildren : \A j \in CaseChildren :
          Cardinality(RangeOf(i) \cap RangeOf(j)) >= 2
    /\ Count(MsgOverlapped) = 1

ExpectedRange ==
    IF "zeroAsTen" \in DOMAIN rule.attrs /\ rule.attrs["zeroAsTen"] = "true"
    THEN 1..10 ELSE 0..9

Covered == UNION { RangeOf(i) : i \in CaseChildren }

\* C3: 'Missed numbers' is appended, once, exactly when there is a case child
\* and the valid ranges of the case children leave out an integer of the
\* expected range (0..9, or 1..10 when zeroAsTen="true"); with no case child
\* neither 'Missed numbers' nor 'Overlapped numbers' is appended.
C3_MissedIff ==
    Checked("randomTable") =>
        /\ Count(MsgMissed) =
              IF CaseChildren # {} /\ ~(ExpectedRange \subseteq Covered) THEN 1 ELSE 0
        /\ CaseChildren = {} => Count(MsgMissed) = 0 /\ Count(MsgOverlapped) = 0

\* zeroAsTen="true" and the cases cover exactly 1..10: nothing is missed
C3_Witness ==
    /\ Checked("randomTable")
    /\ ExpectedRange = 1..10
    /\ Cardinality(CaseChildren) >= 2
    /\ Covered = 1..10
    /\ Count(MsgMissed) = 0

\* C7: the case check appends at most one error: the 'Needs "value" or
\* "from" / "to" attributes' error when no bounds are resolved, the 'Wrong
\* range' error when from > to, and none when from <= to.
C7_CaseAtMostOne ==
    Checked("case") =>
        LET bounds == getCaseRuleBounds(rule)
        IN  /\ Len(errors) <= 1
            /\ bounds = <<>> =>
                  errors = << errorText(currentSection, rule, MsgNeedsBounds) >>
            /\ (bounds # <<>> /\ bounds[1] > bounds[2]) =>
                  errors = << errorText(currentSection, rule, MsgWrongRange) >>
            /\ (bounds # <<>> /\ bounds[1] <= bounds[2]) => errors = <<>>

C7_Witness ==
    /\ Checked("case")
    /\ "from" \in DOMAIN rule.attrs /\ "to" \in DOMAIN rule.attrs
    /\ "value" \notin DOMAIN rule.attrs
    /\ rule.attrs["from"] = 5 /\ rule.attrs["to"] = 4
    /\ errors = << errorText(currentSection, rule, MsgWrongRange) >>

\* the section content holds a link to a random table at the rule's index
LinkExists ==
    LET index == IF IsSet("index") THEN parseIndex(rule.attrs["index"]) ELSE 0
    IN  index < book.randomLinks[currentSection]

\* C8 as stated: without a text-en attribute, 'Link to random table not
\* found' is appended exactly when the section content has no link to the
\* random table at the rule's index (default 0); with text-en it never is.
C8_AsStated ==
    Checked("randomTable") =>
        Count(MsgNoLink) = IF ~IsSet("text-en") /\ ~LinkExists THEN 1 ELSE 0

(***************************************************************************)
(* Claims about downloadBookAndGetValidator (SpecDownload).                *)
(***************************************************************************)
\* C5: under every interleaving of the three downloads' completions, the
\* returned promise is resolved only once all three have resolved, and then
\* with the one validator built; if any download has rejected it is rejected
\* with the download-error message and no validator has been built; the done
\* and the fail callback never both run.
C5_ResolvesAfterAllThree ==
    \A c \in DOMAIN calls :
        /\ calls[c].dfd.state = "resolved" =>
              /\ \A i \in Downloads : calls[c].promises[i] = "resolved"
              /\ calls[c].dfd.value = NewBookValidator(calls[c].bookNumber, calls[c].language)
              /\ calls[c].validators = 1
        /\ (\A i \in Downloads : calls[c].promises[i] = "resolved") =>
              calls[c].dfd.state = "resolved"
        /\ (\E i \in Downloads : calls[c].promises[i] = "rejected") =>
              /\ calls[c].dfd = [state |-> "rejected", value |-> MsgDownload]
              /\ calls[c].validators = 0
        /\ calls[c].doneRuns + calls[c].failRuns <= 1

\* the objects XML rejects after the other two have resolved
C5_Witness ==
    \E c \in DOMAIN calls :
        /\ calls[c].promises = << "resolved", "resolved", "rejected" >>
        /\ calls[c].dfd = [state |-> "rejected", value |-> MsgDownload]
        /\ calls[c].validators = 0

(***************************************************************************)
(* Claims about the validator (Spec).                                      *)
(***************************************************************************)
\* the errors the walk of a section's rules appends to an empty list
FreshSectionErrors(sectionId) == validateSectionInternal(NewWalk, sectionId).errors

RECURSIVE ConcatSectionErrors(_)
ConcatSectionErrors(sectionIds) ==
    IF sectionIds = <<>>
    THEN <<>>
    ELSE FreshSectionErrors(Head(sectionIds)) \o ConcatSectionErrors(Tail(sectionIds))

\* a step that is a validateSection call (of loadSection's validator too)
ValidateSectionCalled ==
    /\ ~Running
    /\ pc' = "validateSectionDone"
    /\ UNCHANGED << xsdText, xsdFetches >>

\* C4: whatever validateBook and validateSection calls came before, a call
\* validateSection(s) leaves the error list equal to the errors the walk of
\* section s's rules appends to an empty list: nothing of an earlier call
\* survives.
C4_SectionResetsErrors ==
    [][ValidateSectionCalled => errors' = FreshSectionErrors(currentSection)']_vars

\* a section validated after a validateBook that had found errors elsewhere
C4_Witness ==
    /\ pc = "validateSectionDone"
    /\ Len(validated) >= 1
    /\ validated[1] # currentSection
    /\ FreshSectionErrors(validated[1]) # <<>>
    /\ errors = FreshSectionErrors(currentSection)
    /\ errors # <<>>
    /\ errors # FreshSectionErrors(validated[1])

\* the next-section chain from the initial section reaches the last section id
ChainReaches == \E i \in 1..Len(SectionOrder) : SectionOrder[i] = getLastSectionId

\* the sections of the chain before the last section id, in chain order
Spine ==
    SubSeq(SectionOrder, 1,
           (CHOOSE i \in 1..Len(SectionOrder) : SectionOrder[i] = getLastSectionId) - 1)

\* C6: while the schema text is not loaded, validateBook's validateXml has
\* appended the one 'not downloaded' error without calling the external
\* validator, and validateBook goes on with the rules: the error list is that
\* error followed by the errors of the sections validated so far, and a
\* validateBook that returns has validated every section of the chain.
C6_MissingXsdOneError ==
    (pc \in { "validateBook", "validateBookDone" } /\ xsdText = Null) =>
        /\ errors = << MsgNoXsd >> \o ConcatSectionErrors(validated)
        /\ xmllintCalls = 0
        /\ (pc = "validateBookDone" /\ ~thrown) => validated = Spine

C6_Witness ==
    /\ pc = "validateBookDone"
    /\ xsdText = Null
    /\ ~thrown
    /\ Len(validated) = 2
    /\ errors[1] = MsgNoXsd
    /\ FreshSectionErrors(validated[1]) # <<>>
    /\ FreshSectionErrors(validated[2]) # <<>>
    /\ Len(errors) >= 3

\* the fixed set of checks
RuleChecks == { "pick", "randomTable", "case", "test" }

\* the walk C9 describes: a check runs exactly for the names of RuleChecks,
\* every child is visited, nothing is raised
RECURSIVE closedWalk(_, _, _)
closedWalk(w, cs, children) ==
    IF children = <<>>
    THEN w
    ELSE LET r == Head(children)
             w1 == IF r.nodeName \in RuleChecks THEN callMember(w, cs, r) ELSE w
         IN  closedWalk(closedWalk(w1, cs, r.children), cs, Tail(children))

ClosedSectionErrors(sectionId) ==
    IF getSection(sectionId) = <<>>
    THEN <<>>
    ELSE closedWalk(NewWalk, sectionId, getSection(sectionId)[1].children).errors

\* C9 as stated: the walk of a section runs a check exactly for the nodes
\* named pick, randomTable, case or test and visits every child; a node of
\* any other name, a member of the validator or not, adds no error of its
\* own and raises nothing.
C9_AsStated ==
    pc = "validateSectionDone" =>
        /\ ~thrown
        /\ errors = ClosedSectionErrors(currentSection)

\* a step that leaves validateBook, by its return or by an exception
ValidateBookEnded == Running /\ pc' = "validateBookDone"

BookErrors == validateBookStart(NewWalk).errors \o ConcatSectionErrors(Spine)

\* C10 as stated: for a book whose chain reaches the last section id,
\* validateBook ends having validated each section of the chain before the
\* last one once, in chain order, its errors appended in that order.
C10_AsStated ==
    [][(ValidateBookEnded /\ ChainReaches) =>
          (validated' = Spine /\ errors' = BookErrors')]_vars

\* the same of the validateBook calls that no exception leaves
C10_WhenNothingThrows ==
    [][(ValidateBookEnded /\ ChainReaches /\ ~thrown') =>
          (validated' = Spine /\ errors' = BookErrors')]_vars

(***************************************************************************)
(* Claims about the schema text (SpecXsd).                                 *)
(***************************************************************************)

\* a downloadXsd call is made in this step
XsdCalled == Len(calls') = Len(calls) + 1

\* C11: across any interleaving of downloadXsd calls and request
\* completions at most one request for the schema is sent, the schema text,
\* once set, is never overwritten or cleared, and a call made after it is
\* set resolves at once without a request.
C11_AsStated ==
    [][ /\ Cardinality(XsdRequests(calls')) <= 1
        /\ (xsdTruthy(xsdText) => xsdText' = xsdText)
        /\ (xsdTruthy(xsdText) /\ XsdCalled =>
               calls'[Len(calls')] = [ fetched |-> FALSE, promise |-> "resolved" ])
      ]_vars

\* what holds of the code: a call sends a request exactly when the text is
\* not set at the time of the call, and resolves at once otherwise
C11_RequestIffUnsetAtCall ==
    [][ XsdCalled =>
          /\ calls'[Len(calls')].fetched = ~xsdTruthy(xsdText)
          /\ (xsdTruthy(xsdText) => calls'[Len(calls')].promise = "resolved")
          /\ xsdText' = xsdText ]_vars

\* two calls made before the first request completes: two requests
C11_TwoRequests == Cardinality(XsdRequests(calls)) >= 2

====
